---- MODULE Spec2Model ----
(***************************************************************************)
(* The request pool manager of cornerstone-render                          *)
(* (src/lib/packages/cornerstone-render/src/utilities/uuidv4.js, lines     *)
(* 13-237): three category queues keyed by priority number, the in-flight  *)
(* counters numRequests, the per-category ceilings maxNumRequests, the     *)
(* awake flag and the setTimeout callbacks armed by startAgain.            *)
(*                                                                         *)
(* Every public call and every event-loop callback is one action; the      *)
(* whole synchronous call tree of a handler (addRequest -> startGrabbing   *)
(* -> getNextRequest -> sendRequest -> requestFn) is inside that action.   *)
(*                                                                         *)
(* The tool group of createToolGroup                                       *)
(* (src/packages/docs/docs/concepts/volumeLoader.md, lines 331-579) is     *)
(* modelled beside it: its tool instances (_tools) and mode options        *)
(* (tools), with addTool and the four setTool<Mode> calls.                 *)
(***************************************************************************)
EXTENDS Integers, Sequences, FiniteSets, TLC

\* ---------------------------------------------------------------- bounds
\* Number of addRequest calls that enqueue an item in one behaviour.
MaxItems == 3
\* Largest value the capacity signal getMaxSimultaneousRequests() takes.
MaxM == 2
\* Number of tool instances a tool group constructs in one behaviour.
MaxTools == 3

\* ------------------------------------------------------------ input sets
\* The three own keys of the requestPool literal (lines 35-39).
Types == {"interaction", "thumbnail", "prefetch"}
\* A string that names no property of requestPool at all.
UnknownType == "other"
\* A string that names a property requestPool inherits from Object.prototype
\* (requestPool is an object literal): requestPool["constructor"] is the
\* Object function, which is truthy and accepts new properties.
ProtoType == "constructor"
TypeInputs == Types \cup {UnknownType, ProtoType}
\* Priority numbers handed to addRequest.  Interaction and thumbnail requests
\* use priority 0 and only prefetch requests are given other priorities
\* (comment at lines 32-34): the default, a one-digit and a two-digit one.
Priorities == {0, 2, 10}
PrioritiesOf(type) == IF type = "prefetch" THEN Priorities ELSE {0}
\* Values of the capacity signal, a number of requests.  With 0 startGrabbing
\* runs no loop iteration and floors every ceiling at 1, as it does with any
\* smaller value.
MValues == 0..MaxM
\* Settlement of the promise returned by requestFn.
Outcomes == {"resolved", "rejected"}

VARIABLES
    requestPool,     \* own keys of requestPool -> (priority -> queue)      (35)
    inherited,       \* numbered properties put on the inherited Object    (81-86)
    numRequests,     \* in-flight counter per category                     (40)
    maxNumRequests,  \* ceiling per category                               (45)
    awake,           \* line 50
    timers,          \* pending setTimeout callbacks of startAgain         (136)
    inflight,        \* promises of requestFn() not yet settled            (146)
    M,               \* what getMaxSimultaneousRequests() last returned    (155)
    nextId,          \* number of requestDetails objects created so far    (74)
    snapshot,        \* what the caller's last getRequestPool() returned    (227)
    toolGroup,       \* the object createToolGroup returned (volumeLoader.md 352)
    lastOp           \* history: the call that produced this state

vars == <<requestPool, inherited, numRequests, maxNumRequests, awake, timers,
          inflight, M, nextId, snapshot, toolGroup, lastOp>>

\* ------------------------------------------------------------- utilities
Max(a, b) == IF a >= b THEN a ELSE b
Min(a, b) == IF a <= b THEN a ELSE b
SetMin(S) == CHOOSE x \in S : \A y \in S : x <= y

\* A bucket map { 0: [] }.
EmptyQueue == [p \in {0} |-> <<>>]
\* The object o with o[p] defined (as [] when it was undefined): lines 81-83.
WithBucket(o, p) ==
    [q \in DOMAIN o \cup {p} |-> IF q \in DOMAIN o THEN o[q] ELSE <<>>]
\* requestPool[type][priority].push(requestDetails): line 86.
Push(o, p, item) == [o EXCEPT ![p] = Append(@, item)]

\* ------------------------------------------- Number -> String, Array.sort
\* Decimal digits of n >= 0 as UTF-16 code units ("0" is 48).
RECURSIVE Digits(_)
Digits(n) == IF n < 10 THEN <<48 + n>> ELSE Append(Digits(n \div 10), 48 + (n % 10))
\* String(n) for an integer n ("-" is 45).
NumberToString(n) == IF n < 0 THEN <<45>> \o Digits(0 - n) ELSE Digits(n)
\* a < b for two strings, compared code unit by code unit.
StringLess(a, b) ==
    \E k \in 1..(Min(Len(a), Len(b)) + 1) :
        /\ \A j \in 1..(k - 1) : a[j] = b[j]
        /\ \/ k > Len(a) /\ k <= Len(b)
           \/ k <= Len(a) /\ k <= Len(b) /\ a[k] < b[k]
\* The order Array.prototype.sort() uses when no comparator is given:
\* elements are compared as strings (line 176).
DefaultSortLess(x, y) == StringLess(NumberToString(x), NumberToString(y))
\* The elements of the finite set S of numbers, as sort() leaves them.
RECURSIVE SortDefault(_)
SortDefault(S) ==
    IF S = {} THEN <<>>
    ELSE LET m == CHOOSE x \in S : \A y \in S \ {x} : DefaultSortLess(x, y)
         IN  <<m>> \o SortDefault(S \ {m})

\* getSortedPriorityGroups(type), lines 172-178: the keys of the category
\* whose queue is not empty, sorted.
getSortedPriorityGroups(pool, type) ==
    SortDefault({p \in DOMAIN pool[type] : Len(pool[type][p]) > 0})

\* -------------------------------------------------------- admission pass
\* The state a pass works on: pool, inh (inherited), num, max, awake,
\* timers, inflight, nextId, log (this pass's dispatches) and
\* reent (the addRequest call, if any, that the first requestFn invoked by
\* this pass makes synchronously).
NoItem == [id |-> 0, type |-> "none"]

\* The queues of pool written out key by key and element by element.
Queues(pool) ==
    [t \in DOMAIN pool |->
        [p \in DOMAIN pool[t] |->
            [i \in 1..Len(pool[t][p]) |-> pool[t][p][i]]]]

\* What lastOp remembers of a state: everything but the ceilings.
Snap(st) ==
    [pool |-> Queues(st.pool), inh |-> st.inh, num |-> st.num,
     max |-> st.max, awake |-> st.awake, timers |-> st.timers,
     inflight |-> st.inflight, nextId |-> st.nextId]
Snap0 ==
    [pool |-> [t \in Types |-> EmptyQueue], inh |-> [p \in {} |-> <<>>],
     num |-> [interaction |-> 0, thumbnail |-> 0, prefetch |-> 0],
     max |-> [interaction |-> 6, thumbnail |-> 6, prefetch |-> 5],
     awake |-> FALSE, timers |-> 0, inflight |-> {}, nextId |-> 0]

\* FirstAdmissible with the ceiling test written <= instead of <.
FirstAdmissibleUpTo(st, type, groups) ==
    LET ok == {i \in 1..Len(groups) :
                  /\ Len(st.pool[type][groups[i]]) > 0
                  /\ st.num[type] <= st.max[type]}
    IN  IF ok = {} THEN {} ELSE {groups[SetMin(ok)]}

\* One of the three for-loops of getNextRequest (lines 181-189, 190-198,
\* 199-207): the first priority of groups that passes the test, as a set.
FirstAdmissible(st, type, groups) ==
    LET ok == {i \in 1..Len(groups) :
                  /\ Len(st.pool[type][groups[i]]) > 0
                  /\ st.num[type] < st.max[type]}
    IN  IF ok = {} THEN {} ELSE {groups[SetMin(ok)]}

\* Shift taking the last element (pop) instead of the first.
ShiftFromTail(st, type, p) ==
    [st  |-> [st EXCEPT !.pool[type][p] = SubSeq(@, 1, Len(@) - 1)],
     item |-> st.pool[type][p][Len(st.pool[type][p])]]

\* requestPool[type][priority].shift() (lines 187, 196, 205).
Shift(st, type, p) ==
    [st  |-> [st EXCEPT !.pool[type][p] = Tail(@)],
     item |-> Head(st.pool[type][p])]

\* CategoryOrder with the prefetch loop placed first.
CategoryOrderPrefetchFirst == <<"prefetch", "thumbnail", "interaction">>

\* The order in which getNextRequest tries the categories.
CategoryOrder == <<"interaction", "thumbnail", "prefetch">>

\* getNextRequest that goes to sleep whenever it returns nothing, also when
\* items are queued behind a ceiling.
getNextRequestSleepOnMiss(st) ==
    LET groups == [i \in 1..3 |-> getSortedPriorityGroups(st.pool, CategoryOrder[i])]
        first  == [i \in 1..3 |-> FirstAdmissible(st, CategoryOrder[i], groups[i])]
        hit    == {i \in 1..3 : first[i] # {}}
    IN  IF hit # {}
        THEN LET i == SetMin(hit)
                 p == CHOOSE q \in first[i] : TRUE
             IN  Shift(st, CategoryOrder[i], p)
        ELSE [st |-> [st EXCEPT !.awake = FALSE], item |-> NoItem]

\* getNextRequest whose test at lines 209-213 looks at the interaction
\* groups only.
getNextRequestSleepOnNoInteraction(st) ==
    LET groups == [i \in 1..3 |-> getSortedPriorityGroups(st.pool, CategoryOrder[i])]
        first  == [i \in 1..3 |-> FirstAdmissible(st, CategoryOrder[i], groups[i])]
        hit    == {i \in 1..3 : first[i] # {}}
    IN  IF hit # {}
        THEN LET i == SetMin(hit)
                 p == CHOOSE q \in first[i] : TRUE
             IN  Shift(st, CategoryOrder[i], p)
        ELSE [st   |-> IF Len(groups[1]) = 0
                       THEN [st EXCEPT !.awake = FALSE]
                       ELSE st,
              item |-> NoItem]

\* getNextRequest(), lines 180-217.
getNextRequest(st) ==
    LET groups == [i \in 1..3 |-> getSortedPriorityGroups(st.pool, CategoryOrder[i])]
        first  == [i \in 1..3 |-> FirstAdmissible(st, CategoryOrder[i], groups[i])]
        hit    == {i \in 1..3 : first[i] # {}}
    IN  IF hit # {}
        THEN LET i == SetMin(hit)
                 p == CHOOSE q \in first[i] : TRUE
             IN  Shift(st, CategoryOrder[i], p)
        ELSE [st   |-> IF \A i \in 1..3 : Len(groups[i]) = 0
                       THEN [st EXCEPT !.awake = FALSE]
                       ELSE st,
              item |-> NoItem]

\* Lines 74-86 of addRequest for a type that requestPool[type] resolves: the
\* bucket is created when undefined and the item is pushed.  The object is
\* the own property when there is one, else the inherited Object function.
Enqueue(st, type, prio) ==
    LET item == [id |-> st.nextId + 1, type |-> type]
    IN  IF type \in DOMAIN st.pool
        THEN [st EXCEPT !.pool[type] = Push(WithBucket(@, prio), prio, item),
                        !.nextId = @ + 1]
        ELSE [st EXCEPT !.inh = Push(WithBucket(@, prio), prio, item),
                        !.nextId = @ + 1]

\* requestFn(), called at line 146: it returns a pending promise; it may
\* itself call addRequest before it returns.  awake is true then (line 144),
\* so that addRequest ends after line 86.
InvokeRequestFn(st, item) ==
    LET s1 == [st EXCEPT !.inflight = @ \cup {item}]
    IN  IF s1.reent = <<>>
        THEN s1
        ELSE [Enqueue(s1, s1.reent[1].type, s1.reent[1].prio)
                 EXCEPT !.reent = <<>>, !.reentDone = TRUE]

\* sendRequest({requestFn, type}), lines 141-151, up to the registration of
\* the finally callback.
sendRequest(st, item) ==
    InvokeRequestFn([st EXCEPT !.num[item.type] = @ + 1, !.awake = TRUE], item)

\* Ceilings with the prefetch ceiling max(m, 1) instead of max(m - 1, 1).
CeilingsPrefetchFull(m) ==
    [interaction |-> Max(m, 1), thumbnail |-> Max(m - 2, 1), prefetch |-> Max(m, 1)]

\* Ceilings without the floor of 1.
CeilingsNoFloor(m) ==
    [interaction |-> m, thumbnail |-> m - 2, prefetch |-> m - 1]

\* The ceilings startGrabbing computes from the signal, lines 156-160.
Ceilings(m) ==
    [interaction |-> Max(m, 1), thumbnail |-> Max(m - 2, 1), prefetch |-> Max(m - 1, 1)]

\* numRequests.interaction + numRequests.thumbnail + numRequests.prefetch.
CurrentRequests(num) == num.interaction + num.thumbnail + num.prefetch

\* The for-loop of startGrabbing, lines 164-169, from iteration i on.  Each
\* dispatch is logged with the state getNextRequest chose it in.
RECURSIVE GrabLoop(_, _, _)
GrabLoop(st, i, requestsToSend) ==
    IF i >= requestsToSend THEN st
    ELSE LET r == getNextRequest(st)
         IN  IF r.item # NoItem
             THEN LET t  == r.item.type
                      p  == CHOOSE q \in DOMAIN st.pool[t] : r.st.pool[t][q] # st.pool[t][q]
                      ev == [item |-> r.item, prio |-> p, pool |-> Queues(st.pool), num |-> st.num]
                      s1 == [r.st EXCEPT !.log = Append(@, ev)]
                  IN  GrabLoop(sendRequest(s1, r.item), i + 1, requestsToSend)
             ELSE GrabLoop(r.st, i + 1, requestsToSend)

\* startGrabbing that does not subtract the requests in flight at line 163.
startGrabbingNoSubtract(st, m) ==
    LET s1 == [st EXCEPT !.max = Ceilings(m), !.passes = @ + 1, !.m = m, !.start = Snap(st)]
    IN  GrabLoop(s1, 0, m)

\* startGrabbing whose loop at line 164 runs one iteration fewer.
startGrabbingOneLess(st, m) ==
    LET s1 == [st EXCEPT !.max = Ceilings(m), !.passes = @ + 1, !.m = m, !.start = Snap(st)]
        requestsToSend == m - CurrentRequests(s1.num)
    IN  GrabLoop(s1, 1, requestsToSend)

\* startGrabbing(), lines 153-170, with m the value the signal returns.
startGrabbing(st, m) ==
    LET s1 == [st EXCEPT !.max = Ceilings(m), !.passes = @ + 1, !.m = m, !.start = Snap(st)]
        requestsToSend == m - CurrentRequests(s1.num)
    IN  GrabLoop(s1, 0, requestsToSend)

\* addRequest without the test of awake at line 89.
addRequestAlwaysGrab(st, type, prio, m) ==
    IF type \notin DOMAIN st.pool /\ type # ProtoType
    THEN [st EXCEPT !.threw = TRUE]
    ELSE startGrabbing([Enqueue(st, type, prio) EXCEPT !.awake = TRUE], m)

\* addRequest that only queues the item: lines 88-92 left out.
addRequestQueueOnly(st, type, prio, m) ==
    IF type \notin DOMAIN st.pool /\ type # ProtoType
    THEN [st EXCEPT !.threw = TRUE]
    ELSE Enqueue(st, type, prio)

\* addRequest(requestFn, type, additionalDetails, priority), lines 67-93.
\* requestPool[type] is undefined for a name that is neither an own nor an
\* inherited property, and line 81 then throws a TypeError.
addRequest(st, type, prio, m) ==
    IF type \notin DOMAIN st.pool /\ type # ProtoType
    THEN [st EXCEPT !.threw = TRUE]
    ELSE LET s1 == Enqueue(st, type, prio)
         IN  IF ~s1.awake
             THEN startGrabbing([s1 EXCEPT !.awake = TRUE], m)
             ELSE s1

\* filterRequests that filters the bucket of priority 0 only.
filterRequestsDefaultBucket(st, keep) ==
    [st EXCEPT !.pool = [t \in DOMAIN st.pool |->
                           [p \in DOMAIN st.pool[t] |->
                              IF p = 0
                              THEN SelectSeq(st.pool[t][p], LAMBDA x : x \in keep)
                              ELSE st.pool[t][p]]]]

\* filterRequests(filterFunction), lines 102-115; keep is the set of
\* requestDetails for which filterFunction returns true.
filterRequests(st, keep) ==
    [st EXCEPT !.pool = [t \in DOMAIN st.pool |->
                           [p \in DOMAIN st.pool[t] |->
                              SelectSeq(st.pool[t][p], LAMBDA x : x \in keep)]]]

\* clearRequestStack that empties every bucket and keeps the keys.
clearRequestStackKeepKeys(st, type) ==
    IF type \notin DOMAIN st.pool /\ type # ProtoType
    THEN [st EXCEPT !.threw = TRUE]
    ELSE [st EXCEPT !.pool = [t \in DOMAIN st.pool \cup {type} |->
                                IF t = type /\ t \in DOMAIN st.pool
                                THEN [p \in DOMAIN st.pool[t] |-> <<>>]
                                ELSE IF t = type THEN EmptyQueue ELSE st.pool[t]]]

\* clearRequestStack(type), lines 125-130: !requestPool[type] holds exactly
\* when the name resolves to nothing; the assignment makes an own property.
clearRequestStack(st, type) ==
    IF type \notin DOMAIN st.pool /\ type # ProtoType
    THEN [st EXCEPT !.threw = TRUE]
    ELSE [st EXCEPT !.pool = [t \in DOMAIN st.pool \cup {type} |->
                                IF t = type THEN EmptyQueue ELSE st.pool[t]]]

\* startAgain with the test of line 133 inverted.
startAgainWhenAsleep(st) ==
    IF st.awake THEN st ELSE [st EXCEPT !.timers = @ + 1]

\* startAgain without the test of awake at line 133.
startAgainAlways(st) == [st EXCEPT !.timers = @ + 1]

\* startAgain(), lines 132-139.
startAgain(st) ==
    IF ~st.awake THEN st ELSE [st EXCEPT !.timers = @ + 1]

\* The finally callback of sendRequest, lines 146-150, run when the promise
\* of item settles, whichever way.
onFinally(st, item) ==
    startAgain([st EXCEPT !.num[item.type] = @ - 1, !.inflight = @ \ {item}])

\* The callback registered with then() instead of finally(): it runs when the
\* promise is fulfilled only.
onSettledThenOnly(st, item, outcome) ==
    IF outcome = "resolved"
    THEN onFinally(st, item)
    ELSE [st EXCEPT !.inflight = @ \ {item}]

\* requestFn().finally(callback), line 146: the callback runs when the promise
\* is fulfilled and when it is rejected.
onSettled(st, item, outcome) == onFinally(st, item)

\* A setTimeout callback that sets awake before it grabs, as addRequest does.
onTimeoutWakes(st, m) ==
    startGrabbing([st EXCEPT !.timers = @ - 1, !.awake = TRUE], m)

\* The setTimeout callback of startAgain, lines 136-138.
onTimeout(st, m) ==
    startGrabbing([st EXCEPT !.timers = @ - 1], m)

\* A caller holds either nothing or a reference to an object.  The module has
\* one pool object, the const requestPool of line 35, whose identity never
\* changes: the handlers assign to its properties only.
NoRef == "none"
PoolRef == "requestPool"

\* getRequestPool(), lines 226-228: the reference to the pool object itself.
getRequestPool == PoolRef

\* ------------------------------------------------------------ tool group
\* Tool names handed to the tool group: the empty string, the value
\* undefined (as a property key it is the string "undefined"), two names
\* registered with the library in state.tools and one that is not.
EmptyName == ""
UndefinedName == "undefined"
RegisteredTools == {"Length", "Probe"}
ToolNames == RegisteredTools \cup {EmptyName, UndefinedName, "Unlisted"}
\* toolConfiguration arguments: the default {} and some other object.
ToolConfigurations == {"{}", "custom"}
\* ToolModes, line 338.
ToolModes == {"Active", "Passive", "Enabled", "Disabled"}
\* The mode of an instance no setTool<Mode> call has touched.
NoMode == "none"

\* The object literal of createToolGroup, lines 352-356: _tools and tools
\* are empty objects.  created counts the objects new ToolClass(...) has
\* made, which tells one instance from another.
createToolGroup ==
    [_tools |-> [n \in {} |-> NoMode], tools |-> [n \in {} |-> NoMode], created |-> 0]

\* o[k] = v on the object o.
Assign(o, k, v) == [x \in DOMAIN o \cup {k} |-> IF x = k THEN v ELSE o[x]]

\* addTool(toolName, toolConfiguration = {}), lines 366-404.  hasToolName is
\* false for undefined and for ""; toolDefinition is state.tools[toolName];
\* localToolInstance is this.tools[toolName], an options object (truthy)
\* when there is one; the new instance is stored in this._tools.
addTool(g, toolName, toolConfiguration) ==
    IF toolName = UndefinedName \/ toolName = EmptyName THEN g
    ELSE IF toolName \notin RegisteredTools THEN g
    ELSE IF toolName \in DOMAIN g.tools THEN g
    ELSE LET instantiatedTool == [id |-> g.created + 1,
                                  configuration |-> <<"defaultToolOptions", toolConfiguration>>,
                                  mode |-> NoMode]
         IN  [g EXCEPT !._tools = Assign(@, toolName, instantiatedTool),
                       !.created = @ + 1]

\* The body the four setTool<Mode> functions share, lines 453-563: nothing
\* when this._tools[toolName] is undefined; else the options (bindings: [],
\* the mode) go into this.tools and the mode into the instance.
\* refreshViewports then renders the viewports and changes nothing here.
setToolMode(g, toolName, mode) ==
    IF toolName \notin DOMAIN g._tools THEN g
    ELSE [g EXCEPT !.tools = Assign(@, toolName, [bindings |-> <<>>, mode |-> mode]),
                   !._tools[toolName].mode = mode]

setToolActive(g, toolName) == setToolMode(g, toolName, "Active")
setToolPassive(g, toolName) == setToolMode(g, toolName, "Passive")
setToolEnabled(g, toolName) == setToolMode(g, toolName, "Enabled")
setToolDisabled(g, toolName) == setToolMode(g, toolName, "Disabled")

\* ------------------------------------------------------------------ state
\* The program state as the record the operators above work on.
Cur ==
    [pool |-> requestPool, inh |-> inherited, num |-> numRequests,
     max |-> maxNumRequests, awake |-> awake, timers |-> timers,
     inflight |-> inflight, nextId |-> nextId,
     log |-> <<>>, reent |-> <<>>, reentDone |-> FALSE, threw |-> FALSE,
     passes |-> 0, m |-> M, start |-> Snap0]

\* Every requestDetails object now in a queue of pool.
Queued(pool) ==
    UNION {UNION {{pool[t][p][i] : i \in 1..Len(pool[t][p])} : p \in DOMAIN pool[t]} :
           t \in DOMAIN pool}

\* The call that led to the state: its name and arguments, whether it threw,
\* how many queued items it discarded, how many times it ran startGrabbing,
\* the signal that pass read (m), the state it started from (start) and what
\* it dispatched (log); for addRequest and for a completion also the state
\* the call itself started from (pre).
Op(name, type, prio, keep, item, outcome, st) ==
    [op |-> name, type |-> type, prio |-> prio, keep |-> keep, item |-> item,
     outcome |-> outcome,
     pre |-> IF name \in {"addRequest", "finally"} THEN Snap(Cur) ELSE Snap0,
     m |-> IF st.passes > 0 THEN st.m ELSE 0,
     threw |-> st.threw,
     removed |-> Cardinality(Queued(requestPool) \ Queued(st.pool)),
     passes |-> st.passes, start |-> st.start, log |-> st.log,
     reentDone |-> st.reentDone]

\* The variables after a handler that ended in st.
Install(st) ==
    /\ requestPool' = st.pool
    /\ inherited' = st.inh
    /\ numRequests' = st.num
    /\ maxNumRequests' = st.max
    /\ awake' = st.awake
    /\ timers' = st.timers
    /\ inflight' = st.inflight
    /\ M' = st.m
    /\ nextId' = st.nextId
    /\ UNCHANGED <<snapshot, toolGroup>>

\* The re-entrant calls a requestFn may make: none, or one addRequest.
Reentries == {<<>>} \cup {<<[type |-> t, prio |-> 0]>> : t \in Types}

\* The module as loaded, under a signal whose first value is in signals.
InitWith(signals) ==
    /\ requestPool = [t \in Types |-> EmptyQueue]
    /\ inherited = [p \in {} |-> <<>>]
    /\ numRequests = [interaction |-> 0, thumbnail |-> 0, prefetch |-> 0]
    /\ maxNumRequests = [interaction |-> 6, thumbnail |-> 6, prefetch |-> 5]
    /\ awake = FALSE
    /\ timers = 0
    /\ inflight = {}
    /\ M \in signals
    /\ nextId = 0
    /\ snapshot = NoRef
    /\ toolGroup = createToolGroup
    /\ lastOp = [op |-> "init", type |-> "none", prio |-> 0, keep |-> {},
                 item |-> NoItem, outcome |-> "none", pre |-> Snap0, m |-> 0,
                 threw |-> FALSE, removed |-> 0, passes |-> 0, start |-> Snap0,
                 log |-> <<>>, reentDone |-> FALSE]

Init == InitWith(MValues)

\* A caller calls addRequest; reent is what the requestFn of the first item
\* the call dispatches does, and m what getMaxSimultaneousRequests() returns
\* if the call reads it, which it does only when awake is false (line 89).
AddRequest(type, prio, reent, m) ==
    /\ nextId + Len(reent) < MaxItems
    /\ prio \in PrioritiesOf(type)
    /\ reent # <<>> => ~awake
    /\ awake => m = M
    /\ LET st == addRequest([Cur EXCEPT !.reent = reent], type, prio, m)
       IN  /\ Install(st)
           /\ lastOp' = Op("addRequest", type, prio, {}, NoItem, "none", st)

\* A caller calls filterRequests with a predicate that is true of keep.
FilterRequests(keep) ==
    /\ LET st == filterRequests(Cur, keep)
       IN  /\ Install(st)
           /\ lastOp' = Op("filterRequests", "none", 0, keep, NoItem, "none", st)

\* A caller calls clearRequestStack.
ClearRequestStack(type) ==
    /\ LET st == clearRequestStack(Cur, type)
       IN  /\ Install(st)
           /\ lastOp' = Op("clearRequestStack", type, 0, {}, NoItem, "none", st)

\* The promise of an in-flight item settles and its finally callback runs.
Complete(item, outcome) ==
    /\ item \in inflight
    /\ LET st == onSettled(Cur, item, outcome)
       IN  /\ Install(st)
           /\ lastOp' = Op("finally", item.type, 0, {}, item, outcome, st)

\* A timer armed by startAgain fires; m is what getMaxSimultaneousRequests()
\* returns when the callback reads it.
TimerFire(reent, m) ==
    /\ timers > 0
    /\ reent # <<>> => nextId + Len(reent) <= MaxItems
    /\ LET st == onTimeout([Cur EXCEPT !.reent = reent], m)
       IN  /\ Install(st)
           /\ lastOp' = Op("timeout", "none", 0, {}, NoItem, "none", st)

Next ==
    \/ \E t \in Types, p \in Priorities, r \in Reentries, m \in MValues :
          AddRequest(t, p, r, m)
    \/ \E keep \in SUBSET Queued(requestPool) : FilterRequests(keep)
    \/ \E t \in Types : ClearRequestStack(t)
    \/ \E i \in inflight, o \in Outcomes : Complete(i, o)
    \/ \E r \in Reentries, m \in MValues : TimerFire(r, m)

\* Callers that pass one of the three categories; getMaxSimultaneousRequests()
\* may return a different value each time it is read.
Spec == Init /\ [][Next]_vars

\* The same callers under a capacity signal that never changes.
NextFixedM ==
    \/ \E t \in Types, p \in Priorities, r \in Reentries : AddRequest(t, p, r, M)
    \/ \E keep \in SUBSET Queued(requestPool) : FilterRequests(keep)
    \/ \E t \in Types : ClearRequestStack(t)
    \/ \E i \in inflight, o \in Outcomes : Complete(i, o)
    \/ \E r \in Reentries : TimerFire(r, M)

SpecFixedM == Init /\ [][NextFixedM]_vars

\* Callers that may pass any string as the category; fixed capacity signal.
NextAnyType ==
    \/ \E t \in TypeInputs, p \in Priorities, r \in Reentries :
          AddRequest(t, p, r, M)
    \/ \E keep \in SUBSET Queued(requestPool) : FilterRequests(keep)
    \/ \E t \in TypeInputs : ClearRequestStack(t)
    \/ \E i \in inflight, o \in Outcomes : Complete(i, o)
    \/ \E r \in Reentries : TimerFire(r, M)

SpecAnyType == Init /\ [][NextAnyType]_vars

\* The scenario "M = 6; submit 10 prefetch items (priority 0), then 1
\* interaction item": the signal and the number of prefetch items.
Scenario19M == 6
Scenario19Prefetch == 10

\* The next addRequest call of that scenario.
Submit19 ==
    /\ nextId < Scenario19Prefetch + 1
    /\ LET type == IF nextId < Scenario19Prefetch THEN "prefetch" ELSE "interaction"
           st   == addRequest(Cur, type, 0, M)
       IN  /\ Install(st)
           /\ lastOp' = Op("addRequest", type, 0, {}, NoItem, "none", st)

\* The scenario's calls, with completions and timers at any point between
\* them and after them.
Next19 ==
    \/ Submit19
    \/ \E i \in inflight, o \in Outcomes : Complete(i, o)
    \/ TimerFire(<<>>, M)

Init19 == InitWith({Scenario19M})

SpecScenario19 == Init19 /\ [][Next19]_vars

\* What the caller sees through the reference ref: the object it points to, as
\* it is now.
Deref(ref) == IF ref = PoolRef THEN Queues(requestPool) ELSE <<>>

\* A caller calls getRequestPool and keeps what it returns.
GetRequestPool ==
    /\ snapshot' = getRequestPool
    /\ lastOp' = Op("getRequestPool", "none", 0, {}, NoItem, "none", Cur)
    /\ UNCHANGED <<requestPool, inherited, numRequests, maxNumRequests, awake,
                   timers, inflight, M, nextId, toolGroup>>

\* A caller mutates the structure it was given: snapshot[type][prio].pop().
\* The array is the one the reference leads to.
MutateSnapshot(type, prio) ==
    /\ snapshot = PoolRef
    /\ prio \in DOMAIN requestPool[type]
    /\ Len(requestPool[type][prio]) > 0
    /\ requestPool' = [requestPool EXCEPT ![type][prio] = SubSeq(@, 1, Len(@) - 1)]
    /\ lastOp' = Op("snapshot.pop", type, prio, {}, NoItem, "none", Cur)
    /\ UNCHANGED <<inherited, numRequests, maxNumRequests, awake, timers,
                   inflight, M, nextId, snapshot, toolGroup>>

\* The callers of SpecFixedM, who also take snapshots and may mutate them.
NextSnapshot ==
    \/ \E t \in Types, p \in Priorities, r \in Reentries : AddRequest(t, p, r, M)
    \/ \E keep \in SUBSET Queued(requestPool) : FilterRequests(keep)
    \/ \E t \in Types : ClearRequestStack(t)
    \/ \E i \in inflight, o \in Outcomes : Complete(i, o)
    \/ \E r \in Reentries : TimerFire(r, M)
    \/ GetRequestPool
    \/ \E t \in Types, p \in Priorities : MutateSnapshot(t, p)

SpecSnapshot == Init /\ [][NextSnapshot]_vars

\* The call of the tool group that led to the state, with the group as it
\* was before the call.
ToolOp(name, toolName, toolConfiguration) ==
    [op |-> name, toolName |-> toolName, toolConfiguration |-> toolConfiguration,
     pre |-> toolGroup]

RequestPoolVars ==
    <<requestPool, inherited, numRequests, maxNumRequests, awake, timers,
      inflight, M, nextId, snapshot>>

\* A caller calls toolGroup.addTool.
AddTool(toolName, toolConfiguration) ==
    /\ toolGroup.created < MaxTools
    /\ toolGroup' = addTool(toolGroup, toolName, toolConfiguration)
    /\ lastOp' = ToolOp("addTool", toolName, toolConfiguration)
    /\ UNCHANGED RequestPoolVars

\* A caller calls one of the four setTool<Mode> functions.
SetToolActive(toolName) ==
    /\ toolGroup' = setToolActive(toolGroup, toolName)
    /\ lastOp' = ToolOp("setToolActive", toolName, "{}")
    /\ UNCHANGED RequestPoolVars
SetToolPassive(toolName) ==
    /\ toolGroup' = setToolPassive(toolGroup, toolName)
    /\ lastOp' = ToolOp("setToolPassive", toolName, "{}")
    /\ UNCHANGED RequestPoolVars
SetToolEnabled(toolName) ==
    /\ toolGroup' = setToolEnabled(toolGroup, toolName)
    /\ lastOp' = ToolOp("setToolEnabled", toolName, "{}")
    /\ UNCHANGED RequestPoolVars
SetToolDisabled(toolName) ==
    /\ toolGroup' = setToolDisabled(toolGroup, toolName)
    /\ lastOp' = ToolOp("setToolDisabled", toolName, "{}")
    /\ UNCHANGED RequestPoolVars

NextToolGroup ==
    \/ \E n \in ToolNames, c \in ToolConfigurations : AddTool(n, c)
    \/ \E n \in ToolNames : SetToolActive(n)
    \/ \E n \in ToolNames : SetToolPassive(n)
    \/ \E n \in ToolNames : SetToolEnabled(n)
    \/ \E n \in ToolNames : SetToolDisabled(n)

\* The callers of one tool group.
SpecToolGroup == Init /\ [][NextToolGroup]_vars

\* What the event loop guarantees: a pending promise settles (every dispatched
\* requestFn is assumed to settle) and an armed setTimeout callback runs.
\* Callers owe nothing: they may stop calling at any point.
Fairness ==
    /\ WF_vars(\E i \in inflight, o \in Outcomes : Complete(i, o))
    /\ WF_vars(\E r \in Reentries, m \in MValues : TimerFire(r, m))

\* Spec with the event loop running.
SpecLive == Init /\ [][Next]_vars /\ Fairness

\* The same guarantees of the event loop under a signal that never changes,
\* written as "infinitely often not enabled, or infinitely often taken".  A
\* finally callback can run exactly when a promise is pending, and a timer
\* callback exactly when a timer is armed; the steps that are a finally
\* callback (Complete) or a timer callback (TimerFire) are those that set
\* lastOp to a call of that name, and each of them changes lastOp (the item
\* completed, the number of timers still armed).
FairnessFixedM ==
    /\ \/ []<>(inflight = {})
       \/ []<><<lastOp'.op = "finally">>_lastOp
    /\ \/ []<>(timers = 0)
       \/ []<><<lastOp'.op = "timeout">>_lastOp

\* SpecFixedM with the event loop running and a signal of at least 1.
SpecLiveFixedM == InitWith(1..MaxM) /\ [][NextFixedM]_vars /\ FairnessFixedM

TypeOK ==
    /\ awake \in BOOLEAN
    /\ timers \in 0..MaxItems
    /\ nextId \in 0..MaxItems
    /\ M \in MValues
    /\ Types \subseteq DOMAIN requestPool

\* ----------------------------------------------------------------- claims
\* The dispatches of the pass the last call ran, each with the queues and
\* counters getNextRequest chose it from.
LogEvents == {lastOp.log[i] : i \in 1..Len(lastOp.log)}
\* The requestDetails objects in a queue.
ItemsOf(q) == {q[i] : i \in 1..Len(q)}
\* Category t has an item queued in pool.
HasQueued(pool, t) == \E p \in DOMAIN pool[t] : Len(pool[t][p]) > 0

\* C1: under a capacity signal fixed at M, the three in-flight counters sum
\* to at most M in every reachable state, and one pass of startGrabbing
\* dispatches at most max(0, M - in-flight total at the start of the pass).
C1_TotalWithinM ==
    /\ CurrentRequests(numRequests) <= M
    /\ lastOp.passes > 0 =>
          Len(lastOp.log) <= Max(0, M - CurrentRequests(lastOp.start.num))

\* A pass filled the last free slots of M >= 2 and left an item queued.
C1_Witness ==
    /\ M >= 2
    /\ lastOp.passes > 0
    /\ Len(lastOp.log) >= 1
    /\ Len(lastOp.log) = M - CurrentRequests(lastOp.start.num)
    /\ CurrentRequests(numRequests) = M
    /\ Queued(requestPool) # {}

\* C2: category precedence at every dispatch.  No thumbnail or prefetch item
\* is selected while an interaction item is queued and numRequests.interaction
\* is below its ceiling, and no prefetch item is selected while a thumbnail
\* item is queued and numRequests.thumbnail is below its ceiling.
C2_CategoryPrecedence ==
    \A e \in LogEvents :
        /\ e.item.type # "interaction" =>
              ~(/\ HasQueued(e.pool, "interaction")
                /\ e.num.interaction < maxNumRequests.interaction)
        /\ e.item.type = "prefetch" =>
              ~(/\ HasQueued(e.pool, "thumbnail")
                /\ e.num.thumbnail < maxNumRequests.thumbnail)

\* An interaction item was selected while a prefetch item submitted before
\* it was queued and the prefetch category was below its ceiling.
C2_Witness ==
    \E e \in LogEvents :
        /\ e.item.type = "interaction"
        /\ e.num.prefetch < maxNumRequests.prefetch
        /\ \E p \in DOMAIN e.pool.prefetch :
              \E x \in ItemsOf(e.pool.prefetch[p]) : x.id < e.item.id

\* C3: sub-priority ordering.  Whenever an item is dispatched from bucket q
\* of a category, every bucket p < q of that category is empty at that
\* moment (buckets are visited in ascending numeric order).
C3_AscendingPriorities ==
    \A e \in LogEvents :
        \A p \in DOMAIN e.pool[e.item.type] :
            p < e.prio => Len(e.pool[e.item.type][p]) = 0

\* C4: FIFO within a bucket.  Items are numbered in submission order (id);
\* every queue holds its items in submission order, and the item a dispatch
\* takes is the earliest submitted item of its bucket at that moment.  Every
\* item dispatched from the bucket later was in the bucket then or was
\* submitted afterwards, so of two items of one bucket that are both
\* dispatched the one submitted first is dispatched first.
C4_FifoWithinBucket ==
    /\ \A t \in DOMAIN requestPool : \A p \in DOMAIN requestPool[t] :
          \A i, j \in 1..Len(requestPool[t][p]) :
              i < j => requestPool[t][p][i].id < requestPool[t][p][j].id
    /\ \A e \in LogEvents :
          \A x \in ItemsOf(e.pool[e.item.type][e.prio]) : e.item.id <= x.id

\* An item was dispatched from a bucket that held a later item too.
C4_Witness ==
    \E e \in LogEvents :
        \E x \in ItemsOf(e.pool[e.item.type][e.prio]) : x.id > e.item.id

\* Position of x in the queue q.
PosIn(q, x) == CHOOSE i \in 1..Len(q) : q[i] = x
\* Number of in-flight items of category c.
InFlightOf(c) == Cardinality({i \in inflight : i.type = c})
\* Number of items of category c the last pass dispatched.
DispatchedOf(c) == Cardinality({i \in 1..Len(lastOp.log) : lastOp.log[i].item.type = c})

\* C5: addRequest appends the item to the tail of its (category, priority)
\* bucket, creating the bucket if absent and leaving every other bucket
\* unchanged, and sets awake; it runs an admission pass, synchronously, if
\* and only if awake was false when it was called.  "after" is the state the
\* call leaves when it runs no pass, and the state its pass starts from when
\* it runs one; no timer is armed either way.
C5_AddRequestEffect ==
    (lastOp.op = "addRequest" /\ ~lastOp.threw) =>
        LET pre   == lastOp.pre
            t     == lastOp.type
            p     == lastOp.prio
            item  == [id |-> pre.nextId + 1, type |-> t]
            old   == IF p \in DOMAIN pre.pool[t] THEN pre.pool[t][p] ELSE <<>>
            after == IF pre.awake THEN Queues(requestPool) ELSE lastOp.start.pool
        IN  /\ DOMAIN after[t] = DOMAIN pre.pool[t] \cup {p}
            /\ after[t][p] = Append(old, item)
            /\ \A q \in DOMAIN pre.pool[t] \ {p} : after[t][q] = pre.pool[t][q]
            /\ \A u \in DOMAIN pre.pool \ {t} : after[u] = pre.pool[u]
            /\ lastOp.passes = (IF pre.awake THEN 0 ELSE 1)
            /\ timers = pre.timers
            /\ pre.awake =>
                  /\ awake
                  /\ numRequests = pre.num
                  /\ inflight = pre.inflight
            /\ ~pre.awake =>
                  /\ lastOp.start.awake
                  /\ lastOp.start.num = pre.num
                  /\ lastOp.start.inflight = pre.inflight

\* addRequest was called while awake was true, for a priority that had no
\* bucket yet, with an item queued in another bucket: the item was only
\* queued.
C5_Witness ==
    /\ lastOp.op = "addRequest"
    /\ lastOp.pre.awake
    /\ lastOp.prio \notin DOMAIN lastOp.pre.pool[lastOp.type]
    /\ Queued(lastOp.pre.pool) # {}
    /\ lastOp.passes = 0
    /\ Len(requestPool[lastOp.type][lastOp.prio]) = 1

\* C6: filterRequests removes from every bucket of every category exactly
\* the queued items for which the predicate returns false, keeps the others
\* in their bucket and in their order, and leaves the in-flight counters and
\* the in-flight items unchanged.
C6_FilterEffect ==
    [][lastOp'.op = "filterRequests" =>
        /\ DOMAIN requestPool' = DOMAIN requestPool
        /\ \A t \in DOMAIN requestPool :
              /\ DOMAIN requestPool'[t] = DOMAIN requestPool[t]
              /\ \A p \in DOMAIN requestPool[t] :
                    LET old == requestPool[t][p]
                        new == requestPool'[t][p]
                    IN  /\ ItemsOf(new) = ItemsOf(old) \cap lastOp'.keep
                        /\ Len(new) = Cardinality(ItemsOf(new))
                        /\ \A i, j \in 1..Len(new) :
                              i < j => PosIn(old, new[i]) < PosIn(old, new[j])
        /\ numRequests' = numRequests
        /\ inflight' = inflight]_vars

\* A filterRequests call removed a queued item, kept one in a bucket other
\* than 0 and kept one elsewhere, while an item was in flight.
C6_Witness ==
    /\ lastOp.op = "filterRequests"
    /\ lastOp.removed > 0
    /\ \E p \in DOMAIN requestPool.prefetch : p # 0 /\ Len(requestPool.prefetch[p]) > 0
    /\ inflight # {}

\* C7: after clearRequestStack of a known category, the queue of that
\* category is exactly one bucket, at priority 0, and it is empty; the queues
\* of the other two categories, the in-flight counters and the in-flight
\* items are unchanged, so each item in flight before the clear is still
\* counted once and still has its completion to come.
C7_ClearEffect ==
    [][(lastOp'.op = "clearRequestStack" /\ lastOp'.type \in Types) =>
        LET t == lastOp'.type
        IN  /\ ~lastOp'.threw
            /\ DOMAIN requestPool'[t] = {0}
            /\ requestPool'[t][0] = <<>>
            /\ \A u \in Types \ {t} : requestPool'[u] = requestPool[u]
            /\ numRequests' = numRequests
            /\ inflight' = inflight
            /\ \A c \in Types : numRequests'[c] = Cardinality({i \in inflight' : i.type = c})]_vars

\* clearRequestStack discarded queued prefetch items and a bucket other than
\* 0 while a prefetch item was in flight and another category had an item
\* queued.
C7_Witness ==
    /\ lastOp.op = "clearRequestStack"
    /\ lastOp.type = "prefetch"
    /\ lastOp.removed > 0
    /\ numRequests.prefetch > 0
    /\ Queued(requestPool) # {}

\* C8: addRequest and clearRequestStack called with a category outside
\* {interaction, thumbnail, prefetch} throw and leave the whole state
\* unchanged; no new category is ever created.
C8_InvalidCategoryRejected ==
    [][(lastOp'.op \in {"addRequest", "clearRequestStack"} /\ lastOp'.type \notin Types) =>
        /\ lastOp'.threw
        /\ DOMAIN requestPool' = Types
        /\ UNCHANGED <<requestPool, inherited, numRequests, maxNumRequests,
                       awake, timers, inflight, M, nextId>>]_vars

\* C9: in-flight accounting.  For each category the counter equals the
\* number of items dispatched and not yet completed and is never negative; a
\* pass adds one per item it dispatches; a completion, by fulfilment or by
\* rejection, subtracts exactly one from the item's category and the item is
\* no longer in flight.
C9_InFlightAccounting ==
    /\ \A c \in Types : numRequests[c] = InFlightOf(c) /\ numRequests[c] >= 0
    /\ lastOp.passes > 0 =>
          \A c \in Types : numRequests[c] = lastOp.start.num[c] + DispatchedOf(c)
    /\ lastOp.op = "finally" =>
          /\ lastOp.item \in lastOp.pre.inflight
          /\ lastOp.item \notin inflight
          /\ \A c \in Types :
                numRequests[c] = lastOp.pre.num[c] - (IF c = lastOp.item.type THEN 1 ELSE 0)

\* A requestFn promise was rejected while another item of the same category
\* was in flight.
C9_Witness ==
    /\ lastOp.op = "finally"
    /\ lastOp.outcome = "rejected"
    /\ lastOp.pre.num[lastOp.item.type] = 2
    /\ numRequests[lastOp.item.type] = 1

\* C10: per-category ceiling at dispatch.  Right after every dispatch of an
\* item of category c, numRequests[c] is at most the ceiling of c computed
\* in that pass from the signal as it was then; a pass that finds the signal
\* at or below the in-flight total dispatches nothing and leaves every
\* in-flight item in flight.
C10_CeilingAtDispatch ==
    lastOp.passes > 0 =>
        /\ maxNumRequests = Ceilings(lastOp.m)
        /\ \A e \in LogEvents :
              e.num[e.item.type] + 1 <= maxNumRequests[e.item.type]
        /\ lastOp.m <= CurrentRequests(lastOp.start.num) =>
              /\ lastOp.log = <<>>
              /\ inflight = lastOp.start.inflight
              /\ numRequests = lastOp.start.num

\* The signal shrank since the pass before, below the in-flight total, and the
\* next pass, started with an item queued, dispatched nothing.
C10_Witness ==
    /\ lastOp.passes > 0
    /\ lastOp.start.max.interaction > Max(lastOp.m, 1)
    /\ lastOp.m < CurrentRequests(lastOp.start.num)
    /\ Queued(lastOp.start.pool) # {}
    /\ lastOp.log = <<>>
    /\ Queued(requestPool) # {}

\* Nothing queued, nothing in flight, no timer armed and awake false.
Idle ==
    /\ ~awake
    /\ Queued(requestPool) = {}
    /\ \A c \in Types : numRequests[c] = 0
    /\ inflight = {}
    /\ timers = 0

\* C11: idle convergence.  Every dispatched item completes and the callers
\* make finitely many submissions, and then from some point on awake is
\* false, every queue is empty, every in-flight counter is zero and no
\* admission pass runs any more.
C11_IdleConvergence ==
    /\ <>[]Idle
    /\ <>[][lastOp'.passes = 0]_vars

\* Every requestDetails object a behaviour can create.
AllItems == [id : 1..MaxItems, type : Types]

\* C12: no starvation from a small signal.  After every pass each ceiling is
\* at least 1, whatever the signal returned; and a thumbnail or prefetch item
\* that is the only item queued while nothing is in flight eventually leaves
\* its queue (it is dispatched, unless a caller discards it first).
C12_NoStarvation ==
    /\ [](lastOp.passes > 0 => \A c \in Types : maxNumRequests[c] >= 1)
    /\ \A x \in AllItems :
          (/\ x.type \in {"thumbnail", "prefetch"}
           /\ Queued(requestPool) = {x}
           /\ inflight = {})
             ~> (x \notin Queued(requestPool))

\* The calls that are operations of the scheduler.
SchedulerOps == {"addRequest", "filterRequests", "clearRequestStack", "finally", "timeout"}

\* C13: getRequestPool changes no scheduler state; a caller's mutation of the
\* structure it returned does not change the scheduler's queues; and no later
\* operation of the scheduler changes what a snapshot already returned holds.
C13_SnapshotIsolated ==
    [][/\ lastOp'.op = "getRequestPool" =>
              UNCHANGED <<requestPool, inherited, numRequests, maxNumRequests,
                          awake, timers, inflight, nextId>>
       /\ lastOp'.op = "snapshot.pop" => requestPool' = requestPool
       /\ (snapshot # NoRef /\ lastOp'.op \in SchedulerOps) =>
              Deref(snapshot)' = Deref(snapshot)]_vars

C16_AsleepNoTimer ==
    /\ ~awake => timers = 0
    /\ lastOp.op = "timeout" => lastOp.start.awake

\* C16, amended: a timer armed while awake was true stays armed when the
\* scheduler goes to sleep.  The pass it runs while awake is false finds
\* every queue empty, dispatches nothing, leaves the queues, the in-flight
\* counters and the in-flight items as they were and leaves awake false.
C16_TimerPassWhileAsleep ==
    [][(lastOp'.op = "timeout" /\ ~awake) =>
          /\ Queued(requestPool) = {}
          /\ lastOp'.passes = 1
          /\ lastOp'.log = <<>>
          /\ ~awake'
          /\ requestPool' = requestPool
          /\ numRequests' = numRequests
          /\ inflight' = inflight
          /\ timers' = timers - 1]_vars

\* A timer fired while awake was false and an item was in flight: the pass
\* ran, dispatched nothing and the scheduler is still asleep.
C16_Witness ==
    /\ lastOp.op = "timeout"
    /\ ~lastOp.start.awake
    /\ lastOp.start.inflight # {}
    /\ lastOp.log = <<>>
    /\ ~awake

\* C17: re-entrancy.  Every item a pass dispatches was queued when the pass
\* started; an item a requestFn submits while the pass runs is not
\* dispatched by that pass.
C17_PassSetFixedAtStart ==
    lastOp.passes > 0 =>
        \A e \in LogEvents : e.item \in Queued(lastOp.start.pool)

\* The items the scheduler holds, queued or in flight.
Held == Queued(requestPool) \cup inflight

\* The scenario of C18: the signal is 1, the scheduler was idle, three items
\* have been submitted, one per category, and all three are still held, so
\* that nothing has completed or been discarded yet.
Scenario18 ==
    /\ M = 1
    /\ nextId = 3
    /\ Cardinality(Held) = 3
    /\ {x.type : x \in Held} = Types

\* C18 as stated: in that scenario the ceilings are 1/1/1, exactly one item
\* has been dispatched, it is the interaction item whatever the submission
\* order, and the thumbnail and prefetch items are queued.
C18_InteractionDispatchedFirst ==
    Scenario18 =>
        /\ maxNumRequests = [interaction |-> 1, thumbnail |-> 1, prefetch |-> 1]
        /\ Cardinality(inflight) = 1
        /\ \A x \in inflight : x.type = "interaction"
        /\ \A x \in Held : x.type # "interaction" => x \in Queued(requestPool)

\* C18, amended: in that scenario the ceilings are 1/1/1, exactly one item
\* has been dispatched and it is the item submitted first, of whatever
\* category; the two items submitted after it are queued.
C18_FirstSubmittedDispatched ==
    Scenario18 =>
        /\ maxNumRequests = [interaction |-> 1, thumbnail |-> 1, prefetch |-> 1]
        /\ Cardinality(inflight) = 1
        /\ CurrentRequests(numRequests) = 1
        /\ \A x \in inflight : x.id = 1
        /\ \A x \in Held : x.id # 1 => x \in Queued(requestPool)

\* The scenario with the prefetch item submitted first: it is in flight and
\* the interaction item is queued.
C18_Witness ==
    /\ Scenario18
    /\ [id |-> 1, type |-> "prefetch"] \in inflight
    /\ \E x \in Queued(requestPool) : x.type = "interaction"

\* The interaction item of the scenario "10 prefetch items, then 1
\* interaction item".
Interaction19 == [id |-> Scenario19Prefetch + 1, type |-> "interaction"]

\* C19: with the signal at 6, after 10 prefetch items of priority 0 and then
\* 1 interaction item are submitted, every pass of startGrabbing that starts
\* with the interaction item queued dispatches it, and dispatches it first;
\* and as long as the interaction item is queued no call dispatches anything,
\* so it leaves before every prefetch item that was queued at its submission.
C19_InteractionNextPass ==
    /\ (lastOp.passes > 0 /\ Interaction19 \in Queued(lastOp.start.pool))
          => (Len(lastOp.log) > 0 /\ lastOp.log[1].item = Interaction19)
    /\ Interaction19 \in Queued(requestPool) => lastOp.log = <<>>

\* A timer's pass that found the interaction item behind queued prefetch
\* items submitted before it, and dispatched it and then a prefetch item.
C19_Witness ==
    /\ lastOp.op = "timeout"
    /\ Interaction19 \in Queued(lastOp.start.pool)
    /\ Len(lastOp.start.pool["prefetch"][0]) >= 2
    /\ Len(lastOp.log) >= 2
    /\ lastOp.log[1].item = Interaction19
    /\ lastOp.log[2].item.type = "prefetch"

\* C20: every call that runs startGrabbing leaves the ceilings at
\* interaction = max(M, 1), thumbnail = max(M - 2, 1), prefetch =
\* max(M - 1, 1) for the value M the signal returned to that pass, and every
\* call that runs no pass (a submission while awake, filterRequests,
\* clearRequestStack, a completion) leaves the ceilings as they were.  The
\* computation of lines 156-160 gives those three values for negative
\* signals as well (SignalRange).
SignalRange == (0 - MaxM - 2)..(MaxM + 2)
C20_CeilingsPerPass ==
    [][/\ \A m \in SignalRange :
             Ceilings(m) = [interaction |-> IF m > 1 THEN m ELSE 1,
                            thumbnail |-> IF m - 2 > 1 THEN m - 2 ELSE 1,
                            prefetch |-> IF m - 1 > 1 THEN m - 1 ELSE 1]
       /\ lastOp'.passes > 0 =>
             /\ maxNumRequests'.interaction = IF lastOp'.m > 1 THEN lastOp'.m ELSE 1
             /\ maxNumRequests'.thumbnail = IF lastOp'.m - 2 > 1 THEN lastOp'.m - 2 ELSE 1
             /\ maxNumRequests'.prefetch = IF lastOp'.m - 1 > 1 THEN lastOp'.m - 1 ELSE 1
       /\ lastOp'.passes = 0 => maxNumRequests' = maxNumRequests]_vars

\* A pass read the signal at 0 after an earlier pass had read it above 1:
\* the ceilings computed by the earlier pass lasted until this pass started
\* and are now 1, 1, 1.
C20_Witness ==
    /\ lastOp.passes > 0
    /\ lastOp.m = 0
    /\ lastOp.start.nextId > 1
    /\ lastOp.start.max.interaction > 1
    /\ lastOp.start.max.thumbnail = 1
    /\ maxNumRequests = [interaction |-> 1, thumbnail |-> 1, prefetch |-> 1]

\* The item with identifier i is in a queue.
QueuedId(i) == \E x \in Queued(requestPool) : x.id = i

\* C21: eventual dispatch.  Under a signal fixed at 1 or more, with every
\* pending promise settling and every armed timer firing, every queued item
\* eventually leaves its queue: it is dispatched, unless filterRequests or
\* clearRequestStack discards it first (the callers make at most MaxItems
\* submissions).  And in no state are items queued with nothing in flight and
\* no timer armed.
C21_EventualDispatch ==
    /\ \A i \in 1..MaxItems : QueuedId(i) ~> ~QueuedId(i)
    /\ [](Queued(requestPool) # {} => (inflight # {} \/ timers > 0))

\* After the last submission a timer's pass dispatched an item that had
\* waited in its queue, and left every queue empty.
C21_Witness ==
    /\ M >= 1
    /\ nextId = MaxItems
    /\ lastOp.op = "timeout"
    /\ Queued(lastOp.start.pool) # {}
    /\ Len(lastOp.log) > 0
    /\ Queued(requestPool) = {}

\* C22: in every state between two calls, awake false implies that every
\* bucket of every category is empty, whatever sequence of addRequest,
\* filterRequests, clearRequestStack, completions and timer passes led there.
C22_AsleepQueuesEmpty ==
    ~awake =>
        \A t \in Types : \A p \in Priorities :
            p \in DOMAIN requestPool[t] => Len(requestPool[t][p]) = 0

\* A pass that started awake found every queue empty and set awake to false
\* (an item is still in flight), and a bucket of a priority other than 0,
\* created by an earlier submission, is still there, empty.
C22_Witness ==
    /\ ~awake
    /\ lastOp.passes > 0
    /\ lastOp.start.awake
    /\ inflight # {}
    /\ \E t \in Types : \E p \in DOMAIN requestPool[t] : p # 0

\* C23: work-conserving pass.  When a call that ran startGrabbing with the
\* signal at m returns with items still queued, either the in-flight
\* counters sum to m or more, or every category with a queued item has its
\* in-flight counter at its ceiling or above.
C23_WorkConserving ==
    (lastOp.passes > 0 /\ Queued(requestPool) # {}) =>
        \/ CurrentRequests(numRequests) >= lastOp.m
        \/ \A t \in Types :
               HasQueued(requestPool, t) => numRequests[t] >= maxNumRequests[t]

\* A pass ended below the signal with an item queued: the categories with
\* queued items are at their ceilings, and a slot of the total is free.
C23_Witness ==
    /\ lastOp.passes > 0
    /\ Len(lastOp.log) > 0
    /\ Queued(requestPool) # {}
    /\ CurrentRequests(numRequests) < lastOp.m
    /\ \A t \in Types :
           HasQueued(requestPool, t) => numRequests[t] = maxNumRequests[t]

\* The tool instances and the mode options of the group are as they were.
ToolGroupUnchanged ==
    /\ toolGroup'._tools = toolGroup._tools
    /\ toolGroup'.tools = toolGroup.tools

\* C24: addTool with a name that was already added to the group, whatever
\* setTool<Mode> calls were or were not made since, leaves the instance of
\* that name and the rest of the group unchanged; so does addTool with an
\* empty or undefined name, or with a name not registered with the library.
C24_AddToolRejectsDuplicate ==
    [][lastOp'.op = "addTool" =>
          /\ lastOp'.toolName \in DOMAIN toolGroup._tools => ToolGroupUnchanged
          /\ lastOp'.toolName \in {EmptyName, UndefinedName} => ToolGroupUnchanged
          /\ lastOp'.toolName \notin RegisteredTools => ToolGroupUnchanged]_vars

====
